---- MODULE Spec2Model ----
(***************************************************************************)
(* Binary-operator recognizers of pijama (src/parser/bin_op.rs).           *)
(*                                                                         *)
(* A Span is the remaining text together with its offset in the source.    *)
(* A parser result is nom's IResult: Ok((remaining, value)) or Err(error), *)
(* written here as one record shape                                        *)
(*     [ok, span, val, ctx]                                                *)
(* where for Ok `span` is the remaining span and `val` the value, and for  *)
(* Err `span` is the span the error is positioned at, `val` the nom        *)
(* ErrorKind and `ctx` the stack of context labels (outermost first).      *)
(* Combinators are written first-order: a combinator receives the results  *)
(* of its sub-parsers, each computed on the span nom would hand to it.     *)
(***************************************************************************)
EXTENDS Naturals, Sequences, FiniteSets, TLC

VARIABLES
    source,  \* the text the caller's span is a view of
    span,    \* the span the caller holds (bin_op_<n>'s `input: Span`)
    prev,    \* the span passed to the last call
    tier,    \* n of the bin_op_<n> called last, 0 before the first call
    res,     \* the IResult<BinOp> the last call returned
    log      \* what log_success's callbacks have recorded

vars == <<source, span, prev, tier, res, log>>

\* ------------------------------------------------------------------ bounds

\* Longest run of spaces put before the core of an input text, and between
\* the core and the character that follows it.
MaxPad == 2

\* ------------------------------------------------------------------ inputs

\* Every character an operator spelling is made of, the two characters
\* space0 skips, and two characters that begin no operator.
Alphabet ==
    {"&", "|", "<", ">", "=", "!", "^", "+", "-", "*", "/", "%",
     " ", "\t", "b", "3"}

Spaces(n) == [k \in 1..n |-> " "]

\* The core of an input text: nothing, one character or two characters (the
\* longest operator spelling has two), every combination of Alphabet.
Cores ==
    {<<>>} \cup {<<a>> : a \in Alphabet} \cup {<<a, b>> : a, b \in Alphabet}

\* What follows the core and its padding: nothing or any one character.
Tails == {<<>>} \cup {<<a>> : a \in Alphabet}

\* The input texts: spaces, a core, spaces, a following character.
Texts ==
    {Spaces(i) \o core \o Spaces(j) \o tail :
        i \in 0..MaxPad, j \in 0..MaxPad, core \in Cores, tail \in Tails}

\* ------------------------------------------------------------------- spans

MkSpan(text, off) == [rest |-> text, off |-> off]

\* The span with its first n characters consumed.
advance(i, n) == MkSpan(SubSeq(i.rest, n + 1, Len(i.rest)), i.off + n)

Ok(rest, val) == [ok |-> TRUE, span |-> rest, val |-> val, ctx |-> <<>>]

Err(at, kind) == [ok |-> FALSE, span |-> at, val |-> kind, ctx |-> <<>>]

\* ------------------------------------------------- nom's parsers, by result

\* A space0 that skips spaces and leaves tabs.
RECURSIVE space0_spaces_only(_)
space0_spaces_only(i) ==
    IF Len(i.rest) > 0 /\ i.rest[1] = " "
    THEN space0_spaces_only(advance(i, 1))
    ELSE Ok(i, "space0")

\* character::complete::space0: zero or more spaces and tabs; never fails.
RECURSIVE space0(_)
space0(i) ==
    IF Len(i.rest) > 0 /\ i.rest[1] \in {" ", "\t"}
    THEN space0(advance(i, 1))
    ELSE Ok(i, "space0")

\* A tag that consumes one character whatever the length of the spelling.
tag_one_char(t, i) ==
    IF Len(i.rest) >= Len(t) /\ SubSeq(i.rest, 1, Len(t)) = t
    THEN Ok(advance(i, 1), t)
    ELSE Err(i, "Tag")

\* bytes::complete::tag: the input begins with the spelling t.
tag(t, i) ==
    IF Len(i.rest) >= Len(t) /\ SubSeq(i.rest, 1, Len(t)) = t
    THEN Ok(advance(i, Len(t)), t)
    ELSE Err(i, "Tag")

\* character::complete::char: the input begins with the character c.
char(c, i) ==
    IF Len(i.rest) >= 1 /\ i.rest[1] = c
    THEN Ok(advance(i, 1), c)
    ELSE Err(i, "Char")

\* combinator::not on input i, r being the sub-parser's result on i:
\* succeeds, consuming nothing, exactly when the sub-parser fails.
not(r, i) == IF r.ok THEN Err(i, "Not") ELSE Ok(i, "unit")

\* combinator::peek on input i: the sub-parser's value, nothing consumed.
peek(r, i) == IF r.ok THEN Ok(i, r.val) ELSE r

\* sequence::terminated: r1 is the first parser's result, r2 the second's on
\* what the first left; the value is the first's.
terminated(r1, r2) ==
    IF ~r1.ok THEN r1
    ELSE IF ~r2.ok THEN r2
    ELSE Ok(r2.span, r1.val)

\* combinator::map with a constant closure |_| v.
map(r, v) == IF r.ok THEN Ok(r.span, v) ELSE r

\* An alt that reports the first alternative's error instead of the last's.
alt_first_error(rs) ==
    IF \E k \in 1..Len(rs) : rs[k].ok
    THEN rs[CHOOSE k \in 1..Len(rs) :
                rs[k].ok /\ \A j \in 1..(k - 1) : ~rs[j].ok]
    ELSE rs[1]

\* branch::alt over the alternatives' results on the same input, in order:
\* the first success; when all fail, the error kept by ParseError::or, which
\* is the last alternative's.
alt(rs) ==
    IF \E k \in 1..Len(rs) : rs[k].ok
    THEN rs[CHOOSE k \in 1..Len(rs) :
                rs[k].ok /\ \A j \in 1..(k - 1) : ~rs[j].ok]
    ELSE rs[Len(rs)]

\* ------------------------------------------------- crate::parser::helpers

\* helpers::with_context: on failure the label is put on the error's context
\* stack and the error's position is kept; transparent on success.
with_context(label, r) ==
    IF r.ok THEN r ELSE [r EXCEPT !.ctx = <<label>> \o @]

\* helpers::log_success: the result passes through unchanged.
log_success(r) == r

\* What log_success's callback records for a call on `input` with result r:
\* the operator and the offset its token starts at; nothing on failure.
logged(input, r) ==
    IF r.ok THEN <<[op |-> r.val, at |-> space0(input).span.off]>> ELSE <<>>

\* helpers::surrounded: the delimiter, the content, the delimiter again; the
\* value is the content's.
surrounded(lead, content, trail) ==
    IF ~lead.ok THEN lead
    ELSE IF ~content.ok THEN content
    ELSE IF ~trail.ok THEN trail
    ELSE Ok(trail.span, content.val)

\* ------------------------------------------------------ the five recognizers

\* A guard that asks for a following character other than c, and so rejects
\* c at the end of the input.
guarded_needs_next(c, i) ==
    LET first == char(c, i)
        next == first.span
        other == IF Len(next.rest) >= 1 /\ next.rest[1] # c
                 THEN Ok(advance(next, 1), next.rest[1])
                 ELSE Err(next, "NoneOf")
    IN terminated(first, peek(other, next))

\* A one-character operator c that must not be followed by another c:
\* terminated(char(c), peek(not(char(c)))).
guarded(c, i) ==
    LET first == char(c, i)
        next == first.span
    IN terminated(first, peek(not(char(c, next), next), next))

alts_1(i) == << map(tag(<<"&", "&">>, i), "And"),
                map(tag(<<"|", "|">>, i), "Or") >>

bin_op_1(input) ==
    LET lead == space0(input)
        content == with_context("Expected logical operator (&&, ||)",
                                log_success(alt(alts_1(lead.span))))
    IN surrounded(lead, content, space0(content.span))

\* The comparison alternatives with < and > left unguarded.
alts_2_unguarded(i) ==
    << map(tag(<<"<", "=">>, i), "Lte"),
       map(tag(<<">", "=">>, i), "Gte"),
       map(char("<", i), "Lt"),
       map(char(">", i), "Gt"),
       map(tag(<<"=", "=">>, i), "Eq"),
       map(tag(<<"!", "=">>, i), "Neq") >>

\* The comparison alternatives with < and > tried before <= and >=.
alts_2_lt_first(i) ==
    << map(guarded("<", i), "Lt"),
       map(guarded(">", i), "Gt"),
       map(tag(<<"<", "=">>, i), "Lte"),
       map(tag(<<">", "=">>, i), "Gte"),
       map(tag(<<"=", "=">>, i), "Eq"),
       map(tag(<<"!", "=">>, i), "Neq") >>

alts_2(i) == << map(tag(<<"<", "=">>, i), "Lte"),
                map(tag(<<">", "=">>, i), "Gte"),
                map(guarded("<", i), "Lt"),
                map(guarded(">", i), "Gt"),
                map(tag(<<"=", "=">>, i), "Eq"),
                map(tag(<<"!", "=">>, i), "Neq") >>

bin_op_2(input) ==
    LET lead == space0(input)
        content == with_context(
                       "Expected comparision operator (<=, >=, <, >, ==, !=)",
                       log_success(alt(alts_2(lead.span))))
    IN surrounded(lead, content, space0(content.span))

\* The bitwise alternatives with & and | left unguarded.
alts_3_unguarded(i) ==
    << map(char("&", i), "BitAnd"),
       map(char("|", i), "BitOr"),
       map(char("^", i), "BitXor"),
       map(tag(<<">", ">">>, i), "Shr"),
       map(tag(<<"<", "<">>, i), "Shl") >>

alts_3(i) == << map(guarded("&", i), "BitAnd"),
                map(guarded("|", i), "BitOr"),
                map(char("^", i), "BitXor"),
                map(tag(<<">", ">">>, i), "Shr"),
                map(tag(<<"<", "<">>, i), "Shl") >>

bin_op_3(input) ==
    LET lead == space0(input)
        content == with_context("Expected binary operator (&, |, ^, <<, >>)",
                                log_success(alt(alts_3(lead.span))))
    IN surrounded(lead, content, space0(content.span))

alts_4(i) == << map(char("+", i), "Add"),
                map(char("-", i), "Sub") >>

bin_op_4(input) ==
    LET lead == space0(input)
        content == with_context("Expected binary operator (+, -)",
                                log_success(alt(alts_4(lead.span))))
    IN surrounded(lead, content, space0(content.span))

\* The multiplicative alternatives with the tags of / and % exchanged.
alts_5_swapped(i) ==
    << map(char("*", i), "Mul"),
       map(char("/", i), "Rem"),
       map(char("%", i), "Div") >>

alts_5(i) == << map(char("*", i), "Mul"),
                map(char("/", i), "Div"),
                map(char("%", i), "Rem") >>

bin_op_5(input) ==
    LET lead == space0(input)
        content == with_context("Expected binary operator (*, /, %)",
                                log_success(alt(alts_5(lead.span))))
    IN surrounded(lead, content, space0(content.span))

\* ------------------------------------------------------------ state machine

\* No call has been made yet.
NoResult == [ok |-> FALSE, span |-> MkSpan(<<>>, 0), val |-> "none", ctx |-> <<>>]

Init ==
    /\ source \in Texts
    /\ span = MkSpan(source, 0)
    /\ prev = span
    /\ tier = 0
    /\ res = NoResult
    /\ log = <<>>

\* The caller passes its span to recognizer n and gets the result r: it takes
\* the returned span after a success and keeps its own after a failure.
Step(n, r) ==
    /\ prev' = span
    /\ tier' = n
    /\ res' = r
    /\ span' = IF r.ok THEN r.span ELSE span
    /\ log' = log \o logged(span, r)
    /\ UNCHANGED source

\* A bin_op_2 that advances the caller's span in place and leaves it where
\* the attempt stopped when it fails.
Call_bin_op_2_inplace ==
    LET r == bin_op_2(span)
    IN /\ prev' = span
       /\ tier' = 2
       /\ res' = r
       /\ span' = r.span
       /\ log' = log \o logged(span, r)
       /\ UNCHANGED source

Call_bin_op_1 == Step(1, bin_op_1(span))

Call_bin_op_2 == Step(2, bin_op_2(span))

Call_bin_op_3 == Step(3, bin_op_3(span))

Call_bin_op_4 == Step(4, bin_op_4(span))

Call_bin_op_5 == Step(5, bin_op_5(span))

Next ==
    \/ Call_bin_op_1
    \/ Call_bin_op_2
    \/ Call_bin_op_3
    \/ Call_bin_op_4
    \/ Call_bin_op_5

Spec == Init /\ [][Next]_vars

\* --------------------------------------------------- vocabulary of the claims

IsWs(c) == c \in {" ", "\t"}

\* The number of spaces and tabs the text begins with.
RECURSIVE LeadWs(_)
LeadWs(s) == IF s # <<>> /\ IsWs(Head(s)) THEN 1 + LeadWs(Tail(s)) ELSE 0

Drop(s, n) == SubSeq(s, n + 1, Len(s))

\* The text from its first character that is neither a space nor a tab.
Token(s) == Drop(s, LeadWs(s))

StartsWith(s, t) == Len(s) >= Len(t) /\ SubSeq(s, 1, Len(t)) = t

\* The text is w with any number of spaces, and nothing else, around it.
Padded(s, w) ==
    LET i == LeadWs(s)
        after == Drop(s, i + Len(w))
    IN /\ \A k \in 1..i : s[k] = " "
       /\ StartsWith(Drop(s, i), w)
       /\ \A k \in 1..Len(after) : after[k] = " "

\* The operator tags with the tier and the spelling documented for each.
Tags ==
    {"And", "Or", "Lte", "Gte", "Lt", "Gt", "Eq", "Neq", "BitAnd", "BitOr",
     "BitXor", "Shr", "Shl", "Add", "Sub", "Mul", "Div", "Rem"}

TierOf(op) ==
    CASE op \in {"And", "Or"} -> 1
      [] op \in {"Lte", "Gte", "Lt", "Gt", "Eq", "Neq"} -> 2
      [] op \in {"BitAnd", "BitOr", "BitXor", "Shr", "Shl"} -> 3
      [] op \in {"Add", "Sub"} -> 4
      [] op \in {"Mul", "Div", "Rem"} -> 5
      [] OTHER -> 0

SpellingOf(op) ==
    CASE op = "And" -> <<"&", "&">>   [] op = "Or" -> <<"|", "|">>
      [] op = "Lte" -> <<"<", "=">>   [] op = "Gte" -> <<">", "=">>
      [] op = "Lt" -> <<"<">>         [] op = "Gt" -> <<">">>
      [] op = "Eq" -> <<"=", "=">>    [] op = "Neq" -> <<"!", "=">>
      [] op = "BitAnd" -> <<"&">>     [] op = "BitOr" -> <<"|">>
      [] op = "BitXor" -> <<"^">>
      [] op = "Shr" -> <<">", ">">>   [] op = "Shl" -> <<"<", "<">>
      [] op = "Add" -> <<"+">>        [] op = "Sub" -> <<"-">>
      [] op = "Mul" -> <<"*">>        [] op = "Div" -> <<"/">>
      [] op = "Rem" -> <<"%">>

\* Recognizer n applied to a span.
recognize(n, input) ==
    CASE n = 1 -> bin_op_1(input)
      [] n = 2 -> bin_op_2(input)
      [] n = 3 -> bin_op_3(input)
      [] n = 4 -> bin_op_4(input)
      [] n = 5 -> bin_op_5(input)

\* A recognizer has been called: prev is the span it was given, res its result.
Called == tier # 0

\* The span at the first character of prev that is neither space nor tab.
TokenStart == MkSpan(Token(prev.rest), prev.off + LeadWs(prev.rest))

\* The last call succeeded with operator op.
Returned(op) == Called /\ res.ok /\ res.val = op

\* ------------------------------------------------------------------- claims

\* C1: for every tier and every spelling of its table, a text that is exactly
\* the spelling with any number of spaces before and after it is accepted by
\* that tier's recognizer, which returns the tag of the spelling and leaves an
\* empty remaining text.
C1_ExactSpelling ==
    \A op \in {o \in Tags : TierOf(o) = tier} :
        Padded(prev.rest, SpellingOf(op))
        => /\ res.ok
           /\ res.val = op
           /\ res.span = MkSpan(<<>>, prev.off + Len(prev.rest))
           /\ span = res.span

C1_Witness ==
    /\ tier = 5
    /\ prev.rest = <<" ", " ", "%", " ">>
    /\ Returned("Rem")
    /\ span.rest = <<>>

\* C2: a text whose first non-whitespace characters are << (>>) is rejected by
\* bin_op_2 and accepted by bin_op_3 as Shl (Shr); one that begins with &&
\* (||) is rejected by bin_op_3 and accepted by bin_op_1 as And (Or); `>> 3`
\* gives Shr with `3` remaining in tier 3.
C2_Disambiguation ==
    LET t == Token(prev.rest)
        doubled(c) == StartsWith(t, <<c, c>>)
    IN /\ tier = 2 /\ (doubled("<") \/ doubled(">")) => ~res.ok
       /\ tier = 3 /\ doubled("<") => Returned("Shl")
       /\ tier = 3 /\ doubled(">") => Returned("Shr")
       /\ tier = 3 /\ (doubled("&") \/ doubled("|")) => ~res.ok
       /\ tier = 1 /\ doubled("&") => Returned("And")
       /\ tier = 1 /\ doubled("|") => Returned("Or")
       /\ tier = 3 /\ prev.rest = <<">", ">", " ", "3">>
            => Returned("Shr") /\ span.rest = <<"3">>

C2_Witness ==
    /\ tier = 3
    /\ prev.rest = <<">", ">", " ", "3">>
    /\ Returned("Shr")
    /\ span.rest = <<"3">>
    /\ ~bin_op_2(prev).ok

\* C3: a recognizer that succeeds returns a tag of its own tier, the text it
\* consumed is, without the whitespace around it, the spelling of that tag,
\* and no other recognizer succeeds on the same input.
C3_TierExclusive ==
    Called /\ res.ok =>
        /\ res.val \in Tags
        /\ TierOf(res.val) = tier
        /\ LET consumed == SubSeq(prev.rest, 1, res.span.off - prev.off)
               inner == Token(consumed)
               n == Len(SpellingOf(res.val))
           IN /\ StartsWith(inner, SpellingOf(res.val))
              /\ \A k \in (n + 1)..Len(inner) : IsWs(inner[k])
        /\ \A k \in (1..5) \ {tier} : ~recognize(k, prev).ok

C3_Witness ==
    /\ tier = 3
    /\ prev.rest = <<" ", "&", " ", "&">>
    /\ Returned("BitAnd")
    /\ span.rest = <<"&">>

C5_Label(n) ==
    CASE n = 1 -> "Expected logical operator (&&, ||)"
      [] n = 2 -> "Expected comparision operator (<=, >=, <, >, ==, !=)"
      [] n = 3 -> "Expected binary operator (&, |, ^, <<, >>)"
      [] n = 4 -> "Expected binary operator (+, -)"
      [] n = 5 -> "Expected binary operator (*, /, %)"

C5_FailurePosition ==
    Called /\ ~res.ok =>
        /\ res.span = TokenStart
        /\ res.ctx = <<C5_Label(tier)>>
        /\ res.val = recognize(tier, MkSpan(<<"b">>, 0)).val

C5_Witness ==
    /\ tier = 3
    /\ prev.rest = <<" ", "&", "&">>
    /\ ~res.ok
    /\ res.span = MkSpan(<<"&", "&">>, prev.off + 1)

\* C6: after a successful call the remaining text does not begin with a space
\* or a tab; `  +  ` and `+` both give Add with nothing remaining in tier 4,
\* and ` && b` gives And with `b` remaining in tier 1.
C6_Trimmed ==
    /\ Called /\ res.ok => span.rest = <<>> \/ ~IsWs(span.rest[1])
    /\ tier = 4 /\ prev.rest \in {<<" ", " ", "+", " ", " ">>, <<"+">>}
         => Returned("Add") /\ span.rest = <<>>
    /\ tier = 1 /\ prev.rest = <<" ", "&", "&", " ", "b">>
         => Returned("And") /\ span.rest = <<"b">>

C6_Witness ==
    /\ tier = 1
    /\ prev.rest = <<" ", "&", "&", " ", "b">>
    /\ Returned("And")
    /\ span.rest = <<"b">>

\* C7: on a text whose first non-whitespace characters are <= (>=), bin_op_2
\* returns Lte (Gte) and consumes both characters, never Lt (Gt).
C7_LongestFirst ==
    LET t == Token(prev.rest)
        lead == LeadWs(prev.rest)
        both(op) ==
            /\ Returned(op)
            /\ span.off = prev.off + lead + 2 + LeadWs(Drop(t, 2))
            /\ span.rest = Token(Drop(t, 2))
    IN /\ tier = 2 /\ StartsWith(t, <<"<", "=">>) => both("Lte")
       /\ tier = 2 /\ StartsWith(t, <<">", "=">>) => both("Gte")

C7_Witness ==
    /\ tier = 2
    /\ prev.rest = <<"<", "=", "=">>
    /\ Returned("Lte")
    /\ span.rest = <<"=">>

\* C8: over any sequence of calls the caller's span never moves backward and
\* stays a suffix of the source; a successful call advances it by the leading
\* whitespace, the matched spelling and the trailing whitespace, and removes
\* exactly that prefix from the remaining text.
C8_Advance ==
    /\ span.off >= prev.off
    /\ span.rest = Drop(source, span.off)
    /\ Called /\ res.ok /\ res.val \in Tags =>
         LET lead == LeadWs(prev.rest)
             n == Len(SpellingOf(res.val))
             trail == LeadWs(Drop(prev.rest, lead + n))
         IN /\ span.off = prev.off + lead + n + trail
            /\ span.rest = Drop(prev.rest, lead + n + trail)

C8_Witness ==
    /\ source = <<" ", "&", "&", " ", " ", "+">>
    /\ Len(log) = 2
    /\ tier = 4
    /\ prev.off = 5
    /\ span.off = 6

\* C9: the label on a failing bin_op_2's error is exactly "expected
\* comparison operator (<=, >=, <, >, ==, !=)", and the error keeps its
\* failure position.
C9_ComparisonLabel ==
    tier = 2 /\ ~res.ok =>
        /\ res.ctx = <<"expected comparison operator (<=, >=, <, >, ==, !=)">>
        /\ res.span = TokenStart

====
